---- MODULE Spec2Model ----
(***************************************************************************)
(* A model of the sales-database agent: the SQLAlchemy SalesDAO            *)
(* (src/sqlalchemy_utils/sales_dao.py), the ORM SalesDAO                   *)
(* (src/pgsql_utils/sales_dao.py) and the agent runner                     *)
(* (src/inspect_react_agent.py).                                           *)
(***************************************************************************)
EXTENDS Integers, Sequences, FiniteSets, TLC

\* ------------------------------------------------------------------ bounds
\* engines/sessions one SalesDAO object creates over its life
MaxConn == 2
\* row ids of the transactions table
MaxRows == 2
\* ids the ORM DAO's transactions table hands out
MaxTx == 2
\* invocations of the agent handler
MaxRuns == 2
\* tool calls the framework makes, over all invocations
MaxCalls == 2
\* the wall clock, in seconds
MaxClock == 1

VARIABLES
    pc,                 \* where the `with SalesDAO(cs) as dao:` statement is
    exitKind,           \* how the with-block was left: none | normal | raised
    engine,             \* self.engine: NoneRef or the id of an engine
    session,            \* self.session: NoneRef or the id of a session
    connection_string,  \* self.connection_string
    engines,            \* every engine ever created: unborn | live | disposed
    sessions,           \* every session ever created: unborn | open | closed
    tx,                 \* the transaction of self.session: idle | active | failed
    committed,          \* the database: committed rows of table transactions
    work,               \* the rows as self.session's open transaction sees them
    ret,                \* the last DAO call and what it gave back
    pg_session,         \* pgsql SalesDAO: whether self.session is set
    store,              \* pgsql SalesDAO: the committed Transaction rows, by id
    next_id,            \* the id the store assigns to the next insert
    pg_ret,             \* the last pgsql SalesDAO call and what it gave back
    pg_tx,              \* pgsql SalesDAO: the session's transaction, ok or
                        \* failed (a statement raised and nothing rolled back)
    handler,            \* whether db_agent has returned its handler run
    run_pc,             \* each invocation of run: idle|awaiting|returned|raised
    thread_id,          \* each invocation's thread id (0 before it starts)
    checkpoints,        \* MemorySaver: the conversation kept for each thread id
    output,             \* what each invocation returned
    log_filename,       \* the file each invocation wrote (NoFile: none)
    files,              \* the logs directory: the content of each file
    clock,              \* the wall clock, in whole seconds
    own_tx,             \* per invocation, the transaction state a session of
                        \* its own would be in
    tool_check,         \* the tool call just made: what it gave, and what it
                        \* would give on a session no other invocation had used
    tool_ret            \* the last call of a tool function built by
                        \* create_database_tools, and what it gave back

daoVars == <<pc, exitKind, engine, session, connection_string, engines,
             sessions, tx, committed, work, ret>>

pgVars == <<pg_session, store, next_id, pg_ret, pg_tx>>

runVars == <<handler, run_pc, thread_id, checkpoints, output, log_filename,
             files, clock, own_tx, tool_check>>

agentVars == <<runVars, tool_ret>>

vars == <<daoVars, pgVars, agentVars>>

\* ------------------------------------------------------------- the database
NoneRef == 0
Absent == 0
ConnIds == 1..MaxConn
RowIds == 1..MaxRows

\* tables the inspected database holds
Tables == <<"sales_data", "transactions">>
TableNames == {"transactions", "sales_data", "nope"}

Range(s) == {s[i] : i \in DOMAIN s}

Present(db) == {r \in RowIds : db[r] # Absent}

\* the column lists a statement may select (a repeated name is legal SQL)
ColLists == {<<"id", "amt">>, <<"amt">>, <<"id", "id">>}

\* ----------------------------------------------------------- query texts
\* A query text is a sequence of lexical pieces: white space, comments,
\* key words in either case.
White == {" ", "NL"}
Comments == {"--c"}

SelectTexts ==
    { <<"SELECT">>, <<" ", "select", "NL">>, <<"WITH", "SELECT">>, <<"--c", "SELECT">> }

ChangeTexts == { <<"INSERT">>, <<" ", "update">>, <<"DELETE">>, <<"with", "DELETE">> }

\* the statements callers send: reads and changes of one or all rows, reads
\* with other column lists, a change with bound parameters, a misspelt
\* statement and a read of a missing table
Queries ==
    [text : SelectTexts, cols : {<<"id", "amt">>}, key : {0, 1},
     tbl : {"transactions"}, params : {FALSE}]
    \cup [text : {<<"SELECT">>}, cols : ColLists, key : {0},
          tbl : {"transactions"}, params : {FALSE}]
    \cup [text : ChangeTexts, cols : {<<>>}, key : {0, 1},
          tbl : {"transactions"}, params : {FALSE}]
    \cup [text : {<<"INSERT">>}, cols : {<<>>}, key : {1},
          tbl : {"transactions"}, params : {TRUE}]
    \cup [text : {<<"SELEC">>, <<"SELECT">>}, cols : {<<"id", "amt">>}, key : {0},
          tbl : {"nope"}, params : {FALSE}]

RECURSIVE lstrip(_)
lstrip(t) == IF t # <<>> /\ Head(t) \in White THEN lstrip(Tail(t)) ELSE t

RECURSIVE rstrip(_)
rstrip(t) ==
    IF t # <<>> /\ t[Len(t)] \in White THEN rstrip(SubSeq(t, 1, Len(t) - 1)) ELSE t

\* str.strip()
strip(t) == rstrip(lstrip(t))

upper_piece(p) ==
    CASE p = "select" -> "SELECT"
      [] p = "update" -> "UPDATE"
      [] p = "with" -> "WITH"
      [] OTHER -> p

\* str.upper()
upper(t) == [i \in DOMAIN t |-> upper_piece(t[i])]

\* str.startswith('SELECT')
startswith_SELECT(t) == t # <<>> /\ Head(t) = "SELECT"

\* the test run_sql makes on the query text
is_select_text(sql_query) == startswith_SELECT(upper(strip(sql_query)))

\* What the database reads the text as: white space and comments are skipped,
\* a WITH clause precedes the statement proper, key words are case-blind.
RECURSIVE Statement(_)
Statement(t) ==
    IF t = <<>> THEN "error"
    ELSE LET p == upper_piece(Head(t)) IN
         IF p \in White \cup Comments \cup {"WITH"} THEN Statement(Tail(t))
         ELSE CASE p = "SELECT" -> "select"
                [] p = "INSERT" -> "insert"
                [] p = "UPDATE" -> "update"
                [] p = "DELETE" -> "delete"
                [] OTHER -> "error"

\* ------------------------------------------- what the database executes
RECURSIVE Ascending(_)
Ascending(S) ==
    IF S = {} THEN <<>>
    ELSE LET m == CHOOSE x \in S : \A y \in S : x <= y
         IN <<m>> \o Ascending(S \ {m})

Match(db, key) == {r \in Present(db) : key = 0 \/ r = key}

Free(db) == RowIds \ Present(db)

ColumnValue(db, r, c) == IF c = "id" THEN r ELSE db[r]

\* the result set of a SELECT: one tuple per matched row, in row-id order
ResultRows(db, q) ==
    LET ids == Ascending(Match(db, q.key))
    IN [k \in DOMAIN ids |->
           [i \in DOMAIN q.cols |-> ColumnValue(db, ids[k], q.cols[i])]]

InsertId(db, key) ==
    IF key # 0 THEN key ELSE CHOOSE x \in Free(db) : \A y \in Free(db) : x <= y

\* a statement the bounded table has room for
Fits(db, q) == Statement(q.text) = "insert" /\ q.key = 0 => Free(db) # {}

Failure(e, db) ==
    [ok |-> FALSE, err |-> e, returns_rows |-> FALSE, keys |-> <<>>,
     rows |-> <<>>, rowcount |-> -1, work |-> db]

\* self.session.execute(text(sql_query)[, params]) on a session whose
\* transaction state is st and which sees the rows db
Execute(st, db, q) ==
    LET stmt == Statement(q.text) IN
    IF st = "failed" THEN Failure("InFailedSqlTransaction", db)
    ELSE IF stmt = "error" THEN Failure("SyntaxError", db)
    ELSE IF q.tbl \notin Range(Tables) THEN Failure("UndefinedTable", db)
    ELSE IF stmt = "select" THEN
        LET rs == ResultRows(db, q) IN
        [ok |-> TRUE, err |-> "", returns_rows |-> TRUE, keys |-> q.cols,
         rows |-> rs, rowcount |-> Len(rs), work |-> db]
    ELSE IF stmt = "insert" THEN
        IF InsertId(db, q.key) \in Present(db) THEN Failure("IntegrityError", db)
        ELSE [ok |-> TRUE, err |-> "", returns_rows |-> FALSE, keys |-> <<>>,
              rows |-> <<>>, rowcount |-> 1,
              work |-> [db EXCEPT ![InsertId(db, q.key)] = 1]]
    ELSE IF stmt = "update" THEN
        [ok |-> TRUE, err |-> "", returns_rows |-> FALSE, keys |-> <<>>,
         rows |-> <<>>, rowcount |-> Cardinality(Match(db, q.key)),
         work |-> [r \in RowIds |-> IF r \in Match(db, q.key) THEN 2 ELSE db[r]]]
    ELSE
        [ok |-> TRUE, err |-> "", returns_rows |-> FALSE, keys |-> <<>>,
         rows |-> <<>>, rowcount |-> Cardinality(Match(db, q.key)),
         work |-> [r \in RowIds |-> IF r \in Match(db, q.key) THEN Absent ELSE db[r]]]

\* dict(zip(columns, row)): a later column of the same name overwrites
zip_dict(columns, row) ==
    LET n == IF Len(columns) <= Len(row) THEN Len(columns) ELSE Len(row)
        last(c) == CHOOSE i \in 1..n : columns[i] = c /\ \A j \in 1..n : columns[j] = c => j <= i
    IN [c \in {columns[i] : i \in 1..n} |-> row[last(c)]]

\* [dict(zip(columns, row)) for row in result.fetchall()]
row_dicts(columns, fetched) == [k \in DOMAIN fetched |-> zip_dict(columns, fetched[k])]

\* --------------------------------------------------- what a call gives back
NoQuery == [text |-> <<>>, cols |-> <<>>, key |-> 0, tbl |-> "", params |-> FALSE]

\* {} and the descriptor get_schema_for_table builds: keys is the key set
EmptyDict == [keys |-> {}, table_name |-> "", columns |-> <<>>]

DescriptorKeys == {"table_name", "columns", "primary_keys", "foreign_keys", "indexes"}

NoCall ==
    [op |-> "", q |-> NoQuery, name |-> "", kind |-> "return", rows |-> <<>>,
     names |-> <<>>, schema |-> EmptyDict, err |-> "", pre |-> [r \in RowIds |-> Absent]]

Call(op) == [NoCall EXCEPT !.op = op, !.pre = work]

Raise(c, e) == [c EXCEPT !.kind = "raise", !.err = e]

\* ------------------------------------------------ SalesDAO (sqlalchemy_utils)
Alive == {"constructed", "inBlock", "exited"}

Created == {i \in ConnIds : engines[i] # "unborn"}

NextConn == Cardinality(Created) + 1

\* create_engine accepts the connection string, or raises
get_engine(connection_str) == connection_str = "good"

\* connect(): a new engine and a new session bound to it replace the
\* references the object holds; what they referred to is left as it is
connect(cs) ==
    IF get_engine(cs)
    THEN /\ engine' = NextConn
         /\ session' = NextConn
         /\ engines' = [engines EXCEPT ![NextConn] = "live"]
         /\ sessions' = [sessions EXCEPT ![NextConn] = "open"]
         /\ tx' = "idle"
         /\ work' = committed
    ELSE UNCHANGED <<engine, session, engines, sessions, tx, work>>

disconnect_session ==
    IF session # NoneRef THEN [sessions EXCEPT ![session] = "closed"] ELSE sessions

disconnect_engine ==
    IF engine # NoneRef THEN [engines EXCEPT ![engine] = "disposed"] ELSE engines

\* disconnect(): session.close() ends the session's transaction and releases
\* its connection; engine.dispose() closes the pool
disconnect ==
    /\ sessions' = disconnect_session
    /\ engines' = disconnect_engine
    /\ tx' = IF session # NoneRef THEN "idle" ELSE tx
    /\ work' = IF session # NoneRef THEN committed ELSE work
    /\ UNCHANGED <<engine, session>>

SalesDAO_init(cs) ==
    /\ pc = "new"
    /\ NextConn <= MaxConn
    /\ connect(cs)
    /\ IF get_engine(cs)
       THEN /\ pc' = "constructed"
            /\ connection_string' = cs
            /\ ret' = Call("__init__")
       ELSE /\ ret' = Raise(Call("__init__"), "ArgumentError")
            /\ UNCHANGED <<pc, connection_string>>
    /\ UNCHANGED <<exitKind, committed>>

SalesDAO_enter ==
    /\ pc = "constructed"
    /\ NextConn <= MaxConn
    /\ connect(connection_string)
    /\ pc' = "inBlock"
    /\ ret' = Call("__enter__")
    /\ UNCHANGED <<exitKind, connection_string, committed>>

\* a variant that cleans up only when the block ended without an exception
SalesDAO_exit_unless_raised(how) ==
    /\ pc = "inBlock"
    /\ IF how = "normal" THEN disconnect
       ELSE UNCHANGED <<engine, session, engines, sessions, tx, work>>
    /\ pc' = "exited"
    /\ exitKind' = how
    /\ ret' = Call("__exit__")
    /\ UNCHANGED <<connection_string, committed>>

\* __exit__ runs when the block is left, by its end or by an exception
SalesDAO_exit(how) ==
    /\ pc = "inBlock"
    /\ disconnect
    /\ pc' = "exited"
    /\ exitKind' = how
    /\ ret' = Call("__exit__")
    /\ UNCHANGED <<connection_string, committed>>

connect_call(cs) ==
    /\ pc \in Alive
    /\ NextConn <= MaxConn
    /\ connect(cs)
    /\ ret' = IF get_engine(cs) THEN Call("connect")
              ELSE Raise(Call("connect"), "ArgumentError")
    /\ UNCHANGED <<pc, exitKind, connection_string, committed>>

disconnect_call ==
    /\ pc \in Alive
    /\ disconnect
    /\ ret' = Call("disconnect")
    /\ UNCHANGED <<pc, exitKind, connection_string, committed>>

\* a variant in which the commit is left out
session_commit_skipped(comm, wk) == comm

\* self.session.commit(): the transaction's rows become the committed rows
session_commit(comm, wk) == wk

\* a variant of run_sql's except clause that returns the empty default
run_sql_on_error_empty(c, e) == c

\* run_sql's except clause: raise error
run_sql_on_error(c, e) == Raise(c, e)

\* run_sql(sql_query, params)
run_sql(q) ==
    /\ pc \in Alive
    /\ Fits(work, q)
    /\ IF session = NoneRef
       THEN /\ ret' = [Call("run_sql") EXCEPT !.q = q]
            /\ UNCHANGED <<sessions, engines, tx, committed, work>>
       ELSE LET r == Execute(tx, work, q)
                c == [Call("run_sql") EXCEPT !.q = q]
            IN  /\ engines' = [engines EXCEPT ![session] = "live"]
                /\ sessions' = [sessions EXCEPT ![session] = "open"]
                /\ IF ~r.ok
                   THEN /\ tx' = "failed"
                        /\ ret' = run_sql_on_error(c, r.err)
                        /\ UNCHANGED <<committed, work>>
                   ELSE IF is_select_text(q.text)
                   THEN /\ tx' = "active"
                        /\ work' = r.work
                        /\ ret' = IF r.returns_rows
                                  THEN [c EXCEPT !.rows = row_dicts(r.keys, r.rows)]
                                  ELSE run_sql_on_error(c, "ResourceClosedError")
                        /\ UNCHANGED committed
                   ELSE /\ tx' = "idle"
                        /\ committed' = session_commit(committed, r.work)
                        /\ work' = r.work
                        /\ ret' = [c EXCEPT !.rows = <<[rows_affected |-> r.rowcount]>>]
    /\ UNCHANGED <<pc, exitKind, engine, session, connection_string>>

\* inspector.get_table_names()
get_table_names == Tables

\* inspector.get_columns(table_name) and the like raise on an unknown table
has_table(table_name) == table_name \in Range(Tables)

Columns(table_name) ==
    IF table_name = "transactions" THEN <<"id", "amt">>
    ELSE <<"customer_id", "purchase_price">>

\* get_all_tables(); up: whether the database answers the inspector
get_all_tables(up) ==
    /\ pc \in Alive
    /\ IF engine = NoneRef
       THEN /\ ret' = Call("get_all_tables")
            /\ UNCHANGED engines
       ELSE /\ engines' = [engines EXCEPT ![engine] = "live"]
            /\ ret' = IF up THEN [Call("get_all_tables") EXCEPT !.names = get_table_names]
                      ELSE Raise(Call("get_all_tables"), "OperationalError")
    /\ UNCHANGED <<pc, exitKind, engine, session, connection_string, sessions,
                   tx, committed, work>>

\* a variant that prints the error and returns the empty default
schema_on_error_swallowed(c, e) == c

\* what get_schema_for_table's except clause does with the inspector's error
schema_on_error(c, e) == Raise(c, e)

\* get_schema_for_table(table_name)
get_schema_for_table(table_name, up) ==
    /\ pc \in Alive
    /\ LET c == [Call("get_schema_for_table") EXCEPT !.name = table_name] IN
       IF engine = NoneRef
       THEN /\ ret' = c
            /\ UNCHANGED engines
       ELSE /\ engines' = [engines EXCEPT ![engine] = "live"]
            /\ ret' = IF ~up THEN schema_on_error(c, "OperationalError")
                      ELSE IF ~has_table(table_name)
                      THEN schema_on_error(c, "NoSuchTableError")
                      ELSE [c EXCEPT !.schema =
                               [keys |-> DescriptorKeys, table_name |-> table_name,
                                columns |-> Columns(table_name)]]
    /\ UNCHANGED <<pc, exitKind, engine, session, connection_string, sessions,
                   tx, committed, work>>

\* ---------------------------------------------------- SalesDAO (pgsql_utils)
\* Money is counted in thousandths; a Numeric(10, 2) column keeps hundredths.
Missing == -1
TxIds == 1..MaxTx

\* what PostgreSQL stores in a Numeric(10, 2) column: the value rounded to
\* two decimal places, ties away from zero
Numeric_10_2(v) == ((v + 5) \div 10) * 10

CharDigit(c) ==
    CASE c = "0" -> 0 [] c = "1" -> 1 [] c = "2" -> 2 [] c = "3" -> 3
      [] c = "4" -> 4 [] c = "5" -> 5 [] c = "6" -> 6 [] c = "7" -> 7
      [] c = "8" -> 8 [] c = "9" -> 9 [] OTHER -> -1

AllDigits(t) == \A i \in DOMAIN t : CharDigit(t[i]) >= 0

RECURSIVE Number(_)
Number(t) ==
    IF t = <<>> THEN 0
    ELSE 10 * Number(SubSeq(t, 1, Len(t) - 1)) + CharDigit(t[Len(t)])

DaysIn(y, m) ==
    IF m \in {4, 6, 9, 11} THEN 30
    ELSE IF m # 2 THEN 31
    ELSE IF (y % 4 = 0 /\ y % 100 # 0) \/ y % 400 = 0 THEN 29 ELSE 28

NoDate == [y |-> 0, m |-> 0, d |-> 0]

\* datetime.strptime(s, '%Y-%m-%d').date(): four digits, then one or two
\* digits for the month and for the day, separated by '-'; NoDate stands
\* for the ValueError
strptime_Ymd(t) ==
    LET dashes == {i \in DOMAIN t : t[i] = "-"} IN
    IF Cardinality(dashes) # 2 THEN NoDate
    ELSE LET a == CHOOSE i \in dashes : \A j \in dashes : i <= j
             b == CHOOSE i \in dashes : \A j \in dashes : j <= i
             ys == SubSeq(t, 1, a - 1)
             ms == SubSeq(t, a + 1, b - 1)
             ds == SubSeq(t, b + 1, Len(t))
         IN IF /\ Len(ys) = 4 /\ AllDigits(ys)
               /\ Len(ms) \in {1, 2} /\ AllDigits(ms)
               /\ Len(ds) \in {1, 2} /\ AllDigits(ds)
               /\ Number(ms) \in 1..12
               /\ Number(ys) >= 1
               /\ Number(ds) \in 1..DaysIn(Number(ys), Number(ms))
            THEN [y |-> Number(ys), m |-> Number(ms), d |-> Number(ds)]
            ELSE NoDate

Str_2024_01_15 == <<"2", "0", "2", "4", "-", "0", "1", "-", "1", "5">>
Str_15_01_2024 == <<"1", "5", "/", "0", "1", "/", "2", "0", "2", "4">>
Str_2024_1_15 == <<"2", "0", "2", "4", "-", "1", "-", "1", "5">>
Str_2024_02_30 == <<"2", "0", "2", "4", "-", "0", "2", "-", "3", "0">>

\* the transaction_date a caller passes: missing, a date object or a string
DateInputs ==
    { [type |-> "missing", str |-> <<>>, date |-> NoDate],
      [type |-> "date", str |-> <<>>, date |-> [y |-> 2024, m |-> 1, d |-> 15]],
      [type |-> "str", str |-> Str_2024_01_15, date |-> NoDate],
      [type |-> "str", str |-> Str_15_01_2024, date |-> NoDate],
      [type |-> "str", str |-> Str_2024_1_15, date |-> NoDate],
      [type |-> "str", str |-> Str_2024_02_30, date |-> NoDate] }

\* the transaction_data dicts callers pass to insert_transaction
InsertData ==
    [quantity : {3}, unit_price : {20, 125}, total_amount : {Missing},
     transaction_date : {d \in DateInputs : d.str = Str_2024_01_15}, customer_id : {7}]
    \cup [quantity : {3}, unit_price : {20}, total_amount : {Missing},
          transaction_date : {d \in DateInputs : d.type = "str"}, customer_id : {7}]
    \cup [quantity : {3}, unit_price : {20}, total_amount : {70},
          transaction_date : {d \in DateInputs : d.type = "date"}, customer_id : {8}]
    \cup [quantity : {Missing}, unit_price : {20}, total_amount : {Missing},
          transaction_date : {d \in DateInputs : d.type # "str"}, customer_id : {8}]

\* the update_data dicts callers pass to update_transaction
UpdateData ==
    { [quantity |-> Missing, unit_price |-> Missing, total_amount |-> Missing],
      [quantity |-> 2, unit_price |-> Missing, total_amount |-> Missing],
      [quantity |-> Missing, unit_price |-> Missing, total_amount |-> 70] }

NoTx == [live |-> FALSE, quantity |-> 0, unit_price |-> 0, total_amount |-> 0,
         transaction_date |-> NoDate, customer_id |-> 0]

NoInsert == [quantity |-> Missing, unit_price |-> Missing, total_amount |-> Missing,
             transaction_date |-> [type |-> "missing", str |-> <<>>, date |-> NoDate],
             customer_id |-> Missing]

\* a call and what it gave back: ok is the True/False (or not-None) a write
\* returns; row, ids, num and groups hold what a read returns
PgNoCall ==
    [op |-> "", id |-> 0, ok |-> FALSE, data |-> NoInsert,
     upd |-> [quantity |-> Missing, unit_price |-> Missing, total_amount |-> Missing],
     row |-> NoTx, kind |-> "return", err |-> "", arg |-> 0,
     range |-> [lo |-> NoDate, hi |-> NoDate],
     ids |-> {}, num |-> 0, groups |-> <<>>]

\* self.session.rollback() in the except clauses of the write methods
session_rollback(st) == "ok"

\* a variant that takes a missing total_amount to be 0
total_if_not_provided_zero(data) ==
    IF data.total_amount # Missing THEN data.total_amount ELSE 0

\* insert_transaction: Decimal(str(quantity)) * Decimal(str(unit_price)) when
\* 'total_amount' is not in transaction_data (a missing factor counts as 0)
total_if_not_provided(data) ==
    IF data.total_amount # Missing THEN data.total_amount
    ELSE (IF data.quantity = Missing THEN 0 ELSE data.quantity)
         * (IF data.unit_price = Missing THEN 0 ELSE data.unit_price)

\* a variant that reads the string day first
date_if_string_day_first(data) ==
    IF data.transaction_date.type = "str"
    THEN LET p == strptime_Ymd(data.transaction_date.str)
         IN [y |-> p.y, m |-> p.d, d |-> p.m]
    ELSE data.transaction_date.date

\* insert_transaction: a date string is parsed, anything else is passed on
date_if_string(data) ==
    IF data.transaction_date.type = "str"
    THEN strptime_Ymd(data.transaction_date.str)
    ELSE data.transaction_date.date

\* the row the store keeps for the values the session flushes
Stored(q, p, t, d, c) ==
    [live |-> TRUE, quantity |-> q, unit_price |-> Numeric_10_2(p),
     total_amount |-> Numeric_10_2(t), transaction_date |-> d, customer_id |-> c]

\* insert_transaction(transaction_data); db_ok: whether the commit reaches
\* the database
insert_transaction(data, db_ok) ==
    /\ next_id <= MaxTx
    /\ IF ~pg_session
       THEN /\ pg_ret' = [PgNoCall EXCEPT !.op = "insert", !.data = data]
            /\ UNCHANGED <<store, next_id, pg_tx>>
       ELSE LET total == total_if_not_provided(data)
                day == date_if_string(data)
                raises == \/ day = NoDate      \* ValueError, or NOT NULL
                          \/ data.quantity = Missing
                          \/ data.unit_price = Missing
                          \/ ~db_ok
                          \/ pg_tx = "failed"
                row == Stored(data.quantity, data.unit_price, total, day,
                              data.customer_id)
            IN IF raises
               THEN /\ pg_ret' = [PgNoCall EXCEPT !.op = "insert", !.data = data]
                    /\ pg_tx' = session_rollback(IF day = NoDate THEN pg_tx ELSE "failed")
                    /\ UNCHANGED <<store, next_id>>
               ELSE /\ store' = [store EXCEPT ![next_id] = row]
                    /\ next_id' = next_id + 1
                    /\ pg_tx' = "ok"
                    /\ pg_ret' = [PgNoCall EXCEPT !.op = "insert", !.data = data,
                                     !.ok = TRUE, !.id = next_id, !.row = row]
    /\ UNCHANGED pg_session

\* whether a query on the session raises: the database fails it, or the
\* session's transaction has failed already
QueryRaises(db_ok) == ~db_ok \/ pg_tx = "failed"

\* get_transaction_by_id(transaction_id): the row, or None when the session is
\* unset, the query raises or no row has the id
get_transaction_by_id(transaction_id, db_ok) ==
    IF pg_session /\ ~QueryRaises(db_ok) /\ transaction_id \in TxIds
    THEN store[transaction_id] ELSE NoTx

\* update_transaction(transaction_id, update_data); q_ok: whether the lookup
\* reaches the database; db_ok: whether the commit does
update_transaction(transaction_id, upd, q_ok, db_ok) ==
    /\ LET c == [PgNoCall EXCEPT !.op = "update", !.id = transaction_id, !.upd = upd]
           transaction == get_transaction_by_id(transaction_id, q_ok)
           q == IF upd.quantity # Missing THEN upd.quantity ELSE transaction.quantity
           p == IF upd.unit_price # Missing THEN upd.unit_price
                ELSE transaction.unit_price
           t == IF upd.quantity # Missing \/ upd.unit_price # Missing THEN q * p
                ELSE IF upd.total_amount # Missing THEN upd.total_amount
                ELSE transaction.total_amount
           row == Stored(q, p, t, transaction.transaction_date, transaction.customer_id)
       IN IF ~pg_session
          THEN /\ pg_ret' = c
               /\ UNCHANGED <<store, pg_tx>>
          ELSE IF ~transaction.live
          THEN /\ pg_ret' = c
               /\ pg_tx' = IF QueryRaises(q_ok) THEN "failed" ELSE pg_tx
               /\ UNCHANGED store
          ELSE IF ~db_ok
          THEN /\ pg_ret' = c
               /\ pg_tx' = session_rollback("failed")
               /\ UNCHANGED store
          ELSE /\ store' = [store EXCEPT ![transaction_id] = row]
               /\ pg_tx' = "ok"
               /\ pg_ret' = [c EXCEPT !.ok = TRUE, !.row = row]
    /\ UNCHANGED <<pg_session, next_id>>

\* delete_transaction(transaction_id)
delete_transaction(transaction_id, q_ok, db_ok) ==
    /\ LET c == [PgNoCall EXCEPT !.op = "delete", !.id = transaction_id]
           transaction == get_transaction_by_id(transaction_id, q_ok)
       IN IF ~pg_session
          THEN /\ pg_ret' = c
               /\ UNCHANGED <<store, pg_tx>>
          ELSE IF ~transaction.live
          THEN /\ pg_ret' = c
               /\ pg_tx' = IF QueryRaises(q_ok) THEN "failed" ELSE pg_tx
               /\ UNCHANGED store
          ELSE IF ~db_ok
          THEN /\ pg_ret' = c
               /\ pg_tx' = session_rollback("failed")
               /\ UNCHANGED store
          ELSE /\ store' = [store EXCEPT ![transaction_id] = NoTx]
               /\ pg_tx' = "ok"
               /\ pg_ret' = [c EXCEPT !.ok = TRUE]
    /\ UNCHANGED <<pg_session, next_id>>

\* ------------------------------------------------ reads and analytics
Live == {i \in TxIds : store[i].live}

DateLE(a, b) ==
    \/ a.y < b.y
    \/ a.y = b.y /\ (a.m < b.m \/ (a.m = b.m /\ a.d <= b.d))

\* Transaction.transaction_date.between(start_date, end_date)
between(d, range) == DateLE(range.lo, d) /\ DateLE(d, range.hi)

DateRanges ==
    { [lo |-> [y |-> 2024, m |-> 1, d |-> 1], hi |-> [y |-> 2024, m |-> 1, d |-> 31]],
      [lo |-> [y |-> 2024, m |-> 2, d |-> 1], hi |-> [y |-> 2024, m |-> 2, d |-> 29]] }

CustomerIds == {7, 9}

Limits == {1, 10}

InRange(range) == {i \in Live : between(store[i].transaction_date, range)}

OfCustomer(customer_id) == {i \in Live : store[i].customer_id = customer_id}

\* func.sum(Transaction.total_amount) over the rows S
RECURSIVE SumTotal(_)
SumTotal(S) ==
    IF S = {} THEN 0
    ELSE LET i == CHOOSE x \in S : TRUE
         IN store[i].total_amount + SumTotal(S \ {i})

\* one result row of get_top_customers' grouped query
Group(customer_id) ==
    [customer_id |-> customer_id,
     total_purchases |-> SumTotal(OfCustomer(customer_id)),
     transaction_count |-> Cardinality(OfCustomer(customer_id))]

\* order_by(desc(func.sum(...))): groups by falling total (equal totals by
\* customer id)
RECURSIVE BySumDesc(_)
BySumDesc(C) ==
    IF C = {} THEN <<>>
    ELSE LET top == CHOOSE x \in C : \A y \in C :
                       \/ Group(x).total_purchases > Group(y).total_purchases
                       \/ /\ Group(x).total_purchases = Group(y).total_purchases
                          /\ x <= y
         IN <<Group(top)>> \o BySumDesc(C \ {top})

\* .limit(limit).all()
limit_all(rows, limit) == SubSeq(rows, 1, IF Len(rows) < limit THEN Len(rows) ELSE limit)

\* a variant of the read methods' except clause that lets the error through
read_on_error_raises(c) == [c EXCEPT !.kind = "raise", !.err = "OperationalError"]

\* the read methods' except clause: print the error, return the empty default
read_on_error(c) == c

\* the common shape of the read methods: the empty default without a session,
\* the query's result, or the empty default when the query raises
read(c, result, db_ok) ==
    /\ IF ~pg_session
       THEN /\ pg_ret' = c
            /\ UNCHANGED pg_tx
       ELSE IF QueryRaises(db_ok)
       THEN /\ pg_ret' = read_on_error(c)
            /\ pg_tx' = "failed"
       ELSE /\ pg_ret' = result
            /\ UNCHANGED pg_tx
    /\ UNCHANGED <<pg_session, store, next_id>>

\* get_all_transactions(): every row (rows of one date come in the
\* database's order; the model keeps which rows)
get_all_transactions(db_ok) ==
    LET c == [PgNoCall EXCEPT !.op = "get_all_transactions"]
    IN read(c, [c EXCEPT !.ids = Live], db_ok)

get_transaction_by_id_call(transaction_id, db_ok) ==
    LET c == [PgNoCall EXCEPT !.op = "get_transaction_by_id", !.id = transaction_id]
    IN read(c, [c EXCEPT !.row = get_transaction_by_id(transaction_id, db_ok)], db_ok)

get_transactions_by_date_range(range, db_ok) ==
    LET c == [PgNoCall EXCEPT !.op = "get_transactions_by_date_range", !.range = range]
    IN read(c, [c EXCEPT !.ids = InRange(range)], db_ok)

get_transactions_by_customer(customer_id, db_ok) ==
    LET c == [PgNoCall EXCEPT !.op = "get_transactions_by_customer", !.arg = customer_id]
    IN read(c, [c EXCEPT !.ids = OfCustomer(customer_id)], db_ok)

get_transaction_count(db_ok) ==
    LET c == [PgNoCall EXCEPT !.op = "get_transaction_count"]
    IN read(c, [c EXCEPT !.num = Cardinality(Live)], db_ok)

\* get_total_sales(): result if result else Decimal('0')
get_total_sales(db_ok) ==
    LET c == [PgNoCall EXCEPT !.op = "get_total_sales"]
    IN read(c, [c EXCEPT !.num = SumTotal(Live)], db_ok)

get_sales_by_date_range(range, db_ok) ==
    LET c == [PgNoCall EXCEPT !.op = "get_sales_by_date_range", !.range = range]
    IN read(c, [c EXCEPT !.num = SumTotal(InRange(range))], db_ok)

get_top_customers(limit, db_ok) ==
    LET c == [PgNoCall EXCEPT !.op = "get_top_customers", !.arg = limit]
        customers == {store[i].customer_id : i \in Live}
    IN read(c, [c EXCEPT !.groups = limit_all(BySumDesc(customers), limit)], db_ok)

\* connect(): self.session = get_sales_db_session(); got: a session came
\* back, None came back, or the call raised (self.session is not assigned)
pg_connect(got) ==
    /\ pg_session' = (CASE got = "session" -> TRUE
                        [] got = "none" -> FALSE
                        [] OTHER -> pg_session)
    /\ pg_ret' = [PgNoCall EXCEPT !.op = "connect", !.ok = (got = "session")]
    /\ pg_tx' = (IF got = "session" THEN "ok" ELSE pg_tx)
    /\ UNCHANGED <<store, next_id>>

\* ------------------------------------------------------------ agent runner
Runs == 1..MaxRuns
NoFile == -1
Seconds == 0..MaxClock

\* datetime.now(): the clock's second and the microseconds within it
Now == [sec : {clock}, micro : {0, 500000}]

\* strftime('%Y%m%d_%H%M%S'): the instant without its microseconds
strftime_seconds(now) == now.sec

Text(t) == [form |-> "str", text |-> t]

\* convert_to_messages: the sample's input, or str(sample) as one user message
input_messages(sample) == <<[type |-> "human", content |-> Text(sample.text)]>>

Samples == {[fmt |-> "inspect", text |-> "question"], [fmt |-> "direct", text |-> "question"]}

\* the content of the last message: a string, or a list of content blocks
FinalContents == {Text("answer"), [form |-> "blocks", text |-> "answer"]}

\* str(message.content): the string itself, or the list's printed form
py_str(content) == [text |-> content.text, printed |-> content.form # "str"]

NoOutput == [text |-> "", printed |-> FALSE]

\* log_messages_to_json: [dict(m) for m in messages], dumped as a JSON array
log_messages_to_json(messages) ==
    [k \in DOMAIN messages |-> [f \in {"type", "content"} |-> messages[k][f]]]

\* the statements the model sends through the run_sql tool
AgentQueries ==
    { [text |-> <<"SELECT">>, cols |-> <<"id", "amt">>, key |-> 0,
       tbl |-> "transactions", params |-> FALSE],
      [text |-> <<"SELEC">>, cols |-> <<"id", "amt">>, key |-> 0,
       tbl |-> "nope", params |-> FALSE],
      [text |-> <<"DELETE">>, cols |-> <<>>, key |-> 1,
       tbl |-> "transactions", params |-> FALSE] }

\* how a tool result reads in the conversation
Outcome(ok, err, n) == [ok |-> ok, err |-> err, n |-> n]

NoCheck == [run |-> 0, actual |-> Outcome(TRUE, "", 0), alone |-> Outcome(TRUE, "", 0)]

Conversation(r) == checkpoints[thread_id[r]]

ToolCalls ==
    Cardinality({m \in Runs \X (1..(2 * MaxCalls + 2)) :
                    /\ m[2] <= Len(checkpoints[m[1]])
                    /\ checkpoints[m[1]][m[2]].content.form = "tool_call"})

\* uuid4(): an id no earlier invocation has
uuid4 == Cardinality({r \in Runs : thread_id[r] # 0}) + 1

\* db_agent(): one SalesDAO, the tools over it, one executor with a
\* MemorySaver; returns the handler run
db_agent(cs) ==
    /\ ~handler
    /\ SalesDAO_init(cs)
    /\ handler' = get_engine(cs)
    /\ UNCHANGED <<tool_ret, run_pc, thread_id, checkpoints, output, log_filename, files,
                   clock, own_tx, tool_check>>

\* run(sample) up to its await: the input messages, a new thread id, and
\* the executor starts on the thread's conversation
run_start(r, sample) ==
    /\ handler
    /\ run_pc[r] = "idle"
    /\ IF r = 1 THEN TRUE ELSE run_pc[r - 1] # "idle"
    /\ thread_id' = [thread_id EXCEPT ![r] = uuid4]
    /\ checkpoints' = [checkpoints EXCEPT ![uuid4] = @ \o input_messages(sample)]
    /\ run_pc' = [run_pc EXCEPT ![r] = "awaiting"]
    /\ tool_check' = NoCheck
    /\ UNCHANGED <<tool_ret, handler, output, log_filename, files, clock, own_tx>>
    /\ UNCHANGED daoVars

\* the executor, for invocation r: the model asks for the run_sql tool, the
\* tool calls dao.run_sql; an error becomes a tool message (handled) or
\* ends the invocation
tool_run_sql(r, q, handled) ==
    /\ run_pc[r] = "awaiting"
    /\ ToolCalls < MaxCalls
    /\ session # NoneRef
    /\ run_sql(q)
    /\ LET alone == Execute(own_tx[r], work, q)
           n == IF ret'.kind = "raise" THEN 0
                ELSE IF is_select_text(q.text) THEN Len(ret'.rows)
                ELSE ret'.rows[1].rows_affected
           m == IF ~alone.ok THEN 0 ELSE alone.rowcount
           call == [type |-> "ai", content |-> [form |-> "tool_call", text |-> "run_sql"]]
           answer == [type |-> "tool",
                      content |-> Text(IF ret'.kind = "raise" THEN ret'.err ELSE "rows")]
       IN /\ tool_check' = [run |-> r,
                            actual |-> Outcome(ret'.kind = "return", ret'.err, n),
                            alone |-> Outcome(alone.ok, alone.err, m)]
          /\ IF ret'.kind = "raise" /\ ~handled
             THEN /\ run_pc' = [run_pc EXCEPT ![r] = "raised"]
                  /\ checkpoints' = [checkpoints EXCEPT ![thread_id[r]] = @ \o <<call>>]
                  /\ own_tx' = [own_tx EXCEPT ![r] = "idle"]
             ELSE /\ checkpoints' =
                        [checkpoints EXCEPT ![thread_id[r]] = @ \o <<call, answer>>]
                  /\ own_tx' = [own_tx EXCEPT ![r] =
                                   IF ~alone.ok THEN "failed"
                                   ELSE IF is_select_text(q.text) THEN "active"
                                   ELSE "idle"]
                  /\ UNCHANGED run_pc
    /\ UNCHANGED <<tool_ret, handler, thread_id, output, log_filename, files, clock>>

\* the framework invocation raises (the model call fails)
executor_raises(r) ==
    /\ run_pc[r] = "awaiting"
    /\ run_pc' = [run_pc EXCEPT ![r] = "raised"]
    /\ own_tx' = [own_tx EXCEPT ![r] = "idle"]
    /\ tool_check' = NoCheck
    /\ UNCHANGED <<tool_ret, handler, thread_id, checkpoints, output, log_filename, files,
                   clock>>
    /\ UNCHANGED daoVars

\* run(sample) from its await on: the executor ends with the model's last
\* message, the transcript is written to the file named by the clock, and the
\* last message's content is returned; logs_ok: whether the file can be opened
run_resume(r, content, now, logs_ok) ==
    /\ run_pc[r] = "awaiting"
    /\ LET result == Conversation(r) \o <<[type |-> "ai", content |-> content]>>
           name == strftime_seconds(now)
       IN /\ checkpoints' = [checkpoints EXCEPT ![thread_id[r]] = result]
          /\ IF logs_ok
             THEN /\ files' = [files EXCEPT ![name] = log_messages_to_json(result)]
                  /\ log_filename' = [log_filename EXCEPT ![r] = name]
                  /\ output' = [output EXCEPT ![r] = py_str(result[Len(result)].content)]
                  /\ run_pc' = [run_pc EXCEPT ![r] = "returned"]
             ELSE /\ run_pc' = [run_pc EXCEPT ![r] = "raised"]
                  /\ UNCHANGED <<files, log_filename, output>>
    /\ own_tx' = [own_tx EXCEPT ![r] = "idle"]
    /\ tool_check' = NoCheck
    /\ UNCHANGED <<tool_ret, handler, thread_id, clock>>
    /\ UNCHANGED daoVars

\* time passes
Tick ==
    /\ clock < MaxClock
    /\ clock' = clock + 1
    /\ tool_check' = NoCheck
    /\ UNCHANGED <<tool_ret, handler, run_pc, thread_id, checkpoints, output, log_filename,
                   files, own_tx>>
    /\ UNCHANGED daoVars

\* ------------------------------------------------- create_database_tools
Summaries == {"three tables", ""}
Recommendations == {"", "add an index"}

\* a Python dict with no keys
NoDict == [k \in {} |-> ""]

NoTool ==
    [tool |-> "", q |-> NoQuery, name |-> "", summary |-> "", recommendations |-> "",
     out |-> NoCall, report |-> NoDict]

\* FinalReport(summary=..., recommendations=...): the model keeps the fields
\* it declares, summary and task_completed (default True); pydantic ignores
\* the extra keyword
FinalReport(summary, recommendations) ==
    [summary |-> summary, task_completed |-> TRUE]

\* FinalReport.__call__: report = {"summary": self.summary}
FinalReport_call(model) == [k \in {"summary"} |-> model.summary]

\* a variant that builds the model without the parameters
DAORunSQL_without_params(query, params) == [query |-> query, params |-> FALSE]

\* DAORunSQL(query=query, params=params)
DAORunSQL(query, params) == [query |-> query, params |-> params]

\* DAOGetSchemaForTable(table_name=table_name)
DAOGetSchemaForTable(table_name) == [table_name |-> table_name]

\* the get_all_tables tool: DAOGetAllTables()(dao); _input is not used
get_all_tables_tool(_input, up) ==
    /\ get_all_tables(up)
    /\ tool_ret' = [NoTool EXCEPT !.tool = "get_all_tables", !.out = ret']
    /\ UNCHANGED runVars

\* the get_schema_for_table tool: DAOGetSchemaForTable(table_name)(dao)
get_schema_for_table_tool(table_name, up) ==
    LET model == DAOGetSchemaForTable(table_name) IN
    /\ get_schema_for_table(model.table_name, up)
    /\ tool_ret' = [NoTool EXCEPT !.tool = "get_schema_for_table",
                                  !.name = table_name, !.out = ret']
    /\ UNCHANGED runVars

\* the run_sql tool: DAORunSQL(query, params)(dao); q holds the query text
\* and whether params were given
run_sql_tool(q) ==
    LET model == DAORunSQL([q EXCEPT !.params = FALSE], q.params) IN
    /\ run_sql([model.query EXCEPT !.params = model.params])
    /\ tool_ret' = [NoTool EXCEPT !.tool = "run_sql", !.q = q, !.out = ret']
    /\ UNCHANGED runVars

\* the final_report tool: FinalReport(summary, recommendations)()
final_report_tool(summary, recommendations) ==
    LET model == FinalReport(summary, recommendations) IN
    /\ pc \in Alive
    /\ tool_ret' = [NoTool EXCEPT !.tool = "final_report", !.summary = summary,
                                  !.recommendations = recommendations,
                                  !.report = FinalReport_call(model)]
    /\ UNCHANGED runVars
    /\ UNCHANGED daoVars

\* ------------------------------------------------------------ specification
InitDao(rows) ==
    /\ pc = "new"
    /\ exitKind = "none"
    /\ engine = NoneRef
    /\ session = NoneRef
    /\ connection_string = ""
    /\ engines = [i \in ConnIds |-> "unborn"]
    /\ sessions = [i \in ConnIds |-> "unborn"]
    /\ tx = "idle"
    /\ committed = rows
    /\ work = rows
    /\ ret = [NoCall EXCEPT !.pre = rows]

InitPg ==
    /\ pg_session = FALSE
    /\ store = [i \in TxIds |-> NoTx]
    /\ next_id = 1
    /\ pg_ret = PgNoCall
    /\ pg_tx = "ok"

InitAgent ==
    /\ handler = FALSE
    /\ run_pc = [r \in Runs |-> "idle"]
    /\ thread_id = [r \in Runs |-> 0]
    /\ checkpoints = [t \in Runs |-> <<>>]
    /\ output = [r \in Runs |-> NoOutput]
    /\ log_filename = [r \in Runs |-> NoFile]
    /\ files = [f \in Seconds |-> <<>>]
    /\ clock = 0
    /\ own_tx = [r \in Runs |-> "idle"]
    /\ tool_check = NoCheck
    /\ tool_ret = NoTool

\* the sqlalchemy SalesDAO and its callers, over any table content
Init ==
    /\ \E rows \in [RowIds -> {Absent, 1}] : InitDao(rows)
    /\ InitPg
    /\ InitAgent

Next ==
    \/ (\E cs \in {"good", "bad"} : SalesDAO_init(cs)) /\ UNCHANGED <<pgVars, agentVars>>
    \/ SalesDAO_enter /\ UNCHANGED <<pgVars, agentVars>>
    \/ (\E how \in {"normal", "raised"} : SalesDAO_exit(how))
       /\ UNCHANGED <<pgVars, agentVars>>
    \/ (\E cs \in {"good", "bad"} : connect_call(cs)) /\ UNCHANGED <<pgVars, agentVars>>
    \/ disconnect_call /\ UNCHANGED <<pgVars, agentVars>>
    \/ (\E q \in Queries : run_sql(q)) /\ UNCHANGED <<pgVars, agentVars>>
    \/ (\E up \in BOOLEAN : get_all_tables(up)) /\ UNCHANGED <<pgVars, agentVars>>
    \/ (\E t \in TableNames, up \in BOOLEAN : get_schema_for_table(t, up))
       /\ UNCHANGED <<pgVars, agentVars>>

Spec == Init /\ [][Next]_vars

\* the pgsql SalesDAO changed by its callers
InitForPg == InitDao([r \in RowIds |-> Absent]) /\ InitPg /\ InitAgent

NextPg ==
    \/ (\E got \in {"session", "none", "raised"} : pg_connect(got))
       /\ UNCHANGED <<daoVars, agentVars>>
    \/ (\E data \in InsertData, db_ok \in BOOLEAN : insert_transaction(data, db_ok))
       /\ UNCHANGED <<daoVars, agentVars>>
    \/ (\E id \in TxIds, upd \in UpdateData, q_ok \in BOOLEAN, db_ok \in BOOLEAN :
           update_transaction(id, upd, q_ok, db_ok)) /\ UNCHANGED <<daoVars, agentVars>>
    \/ (\E id \in TxIds, q_ok \in BOOLEAN, db_ok \in BOOLEAN :
           delete_transaction(id, q_ok, db_ok))
       /\ UNCHANGED <<daoVars, agentVars>>

SpecPg == InitForPg /\ [][NextPg]_vars

\* the pgsql SalesDAO read by its callers: rows are inserted, then read
NextPgRead ==
    \/ (\E got \in {"session", "none", "raised"} : pg_connect(got))
       /\ UNCHANGED <<daoVars, agentVars>>
    \/ (\E data \in InsertData, db_ok \in BOOLEAN : insert_transaction(data, db_ok))
       /\ UNCHANGED <<daoVars, agentVars>>
    \/ (\E db_ok \in BOOLEAN : get_all_transactions(db_ok))
       /\ UNCHANGED <<daoVars, agentVars>>
    \/ (\E id \in TxIds, db_ok \in BOOLEAN : get_transaction_by_id_call(id, db_ok))
       /\ UNCHANGED <<daoVars, agentVars>>
    \/ (\E range \in DateRanges, db_ok \in BOOLEAN :
           get_transactions_by_date_range(range, db_ok))
       /\ UNCHANGED <<daoVars, agentVars>>
    \/ (\E customer_id \in CustomerIds, db_ok \in BOOLEAN :
           get_transactions_by_customer(customer_id, db_ok))
       /\ UNCHANGED <<daoVars, agentVars>>
    \/ (\E db_ok \in BOOLEAN : get_transaction_count(db_ok))
       /\ UNCHANGED <<daoVars, agentVars>>
    \/ (\E db_ok \in BOOLEAN : get_total_sales(db_ok))
       /\ UNCHANGED <<daoVars, agentVars>>
    \/ (\E range \in DateRanges, db_ok \in BOOLEAN :
           get_sales_by_date_range(range, db_ok))
       /\ UNCHANGED <<daoVars, agentVars>>
    \/ (\E limit \in Limits, db_ok \in BOOLEAN : get_top_customers(limit, db_ok))
       /\ UNCHANGED <<daoVars, agentVars>>

SpecPgRead == InitForPg /\ [][NextPgRead]_vars

\* the agent runner: db_agent, then invocations of its handler
InitForAgent == InitDao([r \in RowIds |-> 1]) /\ InitPg /\ InitAgent

NextAgent ==
    \/ (\E cs \in {"good", "bad"} : db_agent(cs)) /\ UNCHANGED pgVars
    \/ (\E r \in Runs, sample \in Samples : run_start(r, sample)) /\ UNCHANGED pgVars
    \/ (\E r \in Runs, q \in AgentQueries, handled \in BOOLEAN :
           tool_run_sql(r, q, handled)) /\ UNCHANGED pgVars
    \/ (\E r \in Runs : executor_raises(r)) /\ UNCHANGED pgVars
    \/ (\E r \in Runs, content \in FinalContents, now \in Now, logs_ok \in BOOLEAN :
           run_resume(r, content, now, logs_ok)) /\ UNCHANGED pgVars
    \/ Tick /\ UNCHANGED pgVars

SpecAgent == InitForAgent /\ [][NextAgent]_vars

\* the tools of create_database_tools(dao), called over one SalesDAO
NextTools ==
    \/ (\E cs \in {"good", "bad"} : SalesDAO_init(cs)) /\ UNCHANGED <<pgVars, agentVars>>
    \/ (\E _input \in {"", "all"}, up \in BOOLEAN : get_all_tables_tool(_input, up))
       /\ UNCHANGED pgVars
    \/ (\E t \in TableNames, up \in BOOLEAN : get_schema_for_table_tool(t, up))
       /\ UNCHANGED pgVars
    \/ (\E q \in Queries : run_sql_tool(q)) /\ UNCHANGED pgVars
    \/ (\E summary \in Summaries, recommendations \in Recommendations :
           final_report_tool(summary, recommendations)) /\ UNCHANGED pgVars

SpecTools == InitForAgent /\ [][NextTools]_vars

\* ------------------------------------------------------------------ claims
RunSqlReturned == ret.op = "run_sql" /\ ret.kind = "return" /\ session # NoneRef

Matched == Match(ret.pre, ret.q.key)

IsRowList ==
    /\ Len(ret.rows) = Cardinality(Matched)
    /\ \A i \in DOMAIN ret.rows : DOMAIN ret.rows[i] = Range(ret.q.cols)

IsRowsAffected ==
    /\ Len(ret.rows) = 1
    /\ DOMAIN ret.rows[1] = {"rows_affected"}

\* C1: whenever control leaves the with-block, by its end or by an exception,
\* the session the DAO holds is closed and the engine it holds is disposed.
C1_ExitClosesSessionAndEngine ==
    [][(pc = "inBlock" /\ pc' = "exited") =>
         /\ session' # NoneRef /\ sessions'[session'] = "closed"
         /\ engine' # NoneRef /\ engines'[engine'] = "disposed"]_vars

C1_Witness ==
    /\ pc = "exited" /\ exitKind = "raised" /\ ret.op = "__exit__"
    /\ sessions[session] = "closed" /\ engines[engine] = "disposed"

\* C2: run_sql answers a SELECT statement with the matched rows and commits
\* nothing; it answers any other statement with one rows-affected mapping,
\* after a commit.
C2_SelectRowsOtherwiseCommit ==
    RunSqlReturned =>
        IF Statement(ret.q.text) = "select"
        THEN IsRowList /\ tx = "active"
        ELSE IsRowsAffected /\ tx = "idle" /\ committed = work

\* C3: run_sql on a SELECT returns as many mappings as rows matched, in result
\* order, each keyed by exactly the selected column names.
C3_SelectLengthAndKeys ==
    (RunSqlReturned /\ Statement(ret.q.text) = "select") =>
        /\ Len(ret.rows) = Cardinality(Matched)
        /\ \A i \in DOMAIN ret.rows :
              /\ DOMAIN ret.rows[i] = Range(ret.q.cols)
              /\ \A c \in Range(ret.q.cols) :
                    ret.rows[i][c] = ColumnValue(ret.pre, Ascending(Matched)[i], c)

\* C4: run_sql on an INSERT, UPDATE or DELETE that executes returns exactly one
\* mapping rows_affected |-> n, n >= 0 the number of rows changed, and the
\* change is committed when the call returns.
C4_ChangeCountedAndCommitted ==
    (RunSqlReturned /\ Statement(ret.q.text) \in {"insert", "update", "delete"}) =>
        /\ IsRowsAffected
        /\ ret.rows[1].rows_affected >= 0
        /\ CASE Statement(ret.q.text) = "insert" ->
                  /\ ret.rows[1].rows_affected = 1
                  /\ Cardinality(Present(committed)) = Cardinality(Present(ret.pre)) + 1
                  /\ \A r \in Present(ret.pre) : committed[r] = ret.pre[r]
             [] Statement(ret.q.text) = "update" ->
                  /\ ret.rows[1].rows_affected = Cardinality(Matched)
                  /\ \A r \in RowIds :
                        committed[r] = IF r \in Matched THEN 2 ELSE ret.pre[r]
             [] OTHER ->
                  /\ ret.rows[1].rows_affected = Cardinality(Matched)
                  /\ Present(committed) = Present(ret.pre) \ Matched
                  /\ \A r \in Present(committed) : committed[r] = ret.pre[r]

C4_Witness ==
    /\ RunSqlReturned /\ Statement(ret.q.text) = "delete"
    /\ ret.rows = <<[rows_affected |-> 2]>>
    /\ Present(ret.pre) = {1, 2} /\ Present(committed) = {}

\* C7: get_schema_for_table on a table the database does not hold raises; it
\* returns no descriptor for that name.
C7_UnknownTableRaises ==
    (ret.op = "get_schema_for_table" /\ ret.name \notin Range(Tables)) =>
        ret.kind = "raise" /\ ret.schema.keys = {}

C7_Witness ==
    /\ ret.op = "get_schema_for_table" /\ ret.name = "nope"
    /\ ret.kind = "raise" /\ ret.err = "NoSuchTableError"

InsertedWithoutTotal ==
    pg_ret.op = "insert" /\ pg_ret.ok /\ pg_ret.data.total_amount = Missing

\* C5: after any sequence of inserts, updates and deletes, every stored
\* transaction has total_amount = quantity x unit_price.
C5_TotalIsProduct ==
    \A id \in TxIds :
        store[id].live =>
            store[id].total_amount = store[id].quantity * store[id].unit_price

\* C6 (as stated): an insert without total_amount stores and returns the exact
\* decimal product of the supplied quantity and unit_price.
C6_ExactProduct ==
    InsertedWithoutTotal =>
        /\ pg_ret.row.total_amount = pg_ret.data.quantity * pg_ret.data.unit_price
        /\ store[pg_ret.id].total_amount = pg_ret.data.quantity * pg_ret.data.unit_price

\* C6 (amended): an insert without total_amount stores and returns the product
\* of the supplied quantity and unit_price at the column's two decimals: a
\* multiple of 0.01 within half a cent of the product (the half rounding up),
\* and the product itself when it has no more than two decimals.
C6_ProductToTwoDecimals ==
    InsertedWithoutTotal =>
        LET product == pg_ret.data.quantity * pg_ret.data.unit_price
            total == pg_ret.row.total_amount
        IN /\ store[pg_ret.id].total_amount = total
           /\ total % 10 = 0
           /\ total - 5 <= product /\ product < total + 5
           /\ (product % 10 = 0 => total = product)

C6_Witness ==
    /\ InsertedWithoutTotal
    /\ pg_ret.data.quantity = 3 /\ pg_ret.data.unit_price = 125
    /\ pg_ret.row.total_amount = 380
    /\ store[pg_ret.id].total_amount = 380

\* C8: any two invocations that returned wrote their transcripts to distinct
\* files, and each file still holds the transcript of the invocation that
\* named it.
C8_OwnFilePerRun ==
    \A r1, r2 \in Runs :
        (r1 # r2 /\ run_pc[r1] = "returned" /\ run_pc[r2] = "returned") =>
            /\ log_filename[r1] # log_filename[r2]
            /\ files[log_filename[r1]] = log_messages_to_json(Conversation(r1))

\* C9: an invocation's tool results and conversation depend on nothing another
\* invocation left behind: each tool call gives what it would give on a
\* session only this invocation had used, thread ids are not shared, and a
\* conversation starts with the invocation's own input.
C9_NoSharedState ==
    /\ tool_check.run # 0 => tool_check.actual = tool_check.alone
    /\ \A r1, r2 \in Runs :
          (r1 # r2 /\ thread_id[r1] # 0) => thread_id[r1] # thread_id[r2]
    /\ \A r \in Runs :
          run_pc[r] = "awaiting" => Conversation(r)[1].type = "human"

\* C10: the step that completes an invocation returns the text of the
\* conversation's last message, with the whole conversation, in order, already
\* in the timestamped file; a step that ends it with an error returns nothing
\* and writes nothing.
C10_ReturnsLastTextAfterLogging ==
    [][\A r \in Runs :
          /\ (run_pc[r] = "awaiting" /\ run_pc'[r] = "returned") =>
                LET result == checkpoints'[thread_id[r]]
                IN /\ output'[r] = [text |-> result[Len(result)].content.text,
                                    printed |-> FALSE]
                   /\ log_filename'[r] # NoFile
                   /\ files'[log_filename'[r]] =
                         [k \in 1..Len(result) |->
                             [type |-> result[k].type, content |-> result[k].content]]
          /\ (run_pc[r] = "awaiting" /\ run_pc'[r] = "raised") =>
                /\ output'[r] = NoOutput
                /\ files' = files]_vars

\* what the statement of the last run_sql call gives on a session whose
\* transaction has not failed
LastStatement == Execute("idle", ret.pre, ret.q)

\* C11: get_all_tables, get_schema_for_table and run_sql raise the driver's
\* error whenever the inspector or the session raises; a call that returns gives
\* the real result, and the empty default only with the engine/session unset.
C11_DriverErrorsPropagate ==
    /\ ret.op = "get_all_tables" =>
          IF ret.kind = "raise" THEN ret.err = "OperationalError"
          ELSE \/ ret.names = get_table_names
               \/ engine = NoneRef /\ ret.names = <<>>
    /\ ret.op = "get_schema_for_table" =>
          IF ret.kind = "raise"
          THEN /\ ret.err \in {"OperationalError", "NoSuchTableError"}
               /\ ret.schema = EmptyDict
          ELSE \/ /\ has_table(ret.name)
                  /\ ret.schema.keys = DescriptorKeys
                  /\ ret.schema.table_name = ret.name
               \/ engine = NoneRef /\ ret.schema = EmptyDict
    /\ ret.op = "run_sql" =>
          /\ ~LastStatement.ok => ret.kind = "raise"
          /\ IF ret.kind = "raise"
             THEN /\ ret.rows = <<>>
                  /\ \/ ret.err = "InFailedSqlTransaction"
                     \/ ~LastStatement.ok /\ ret.err = LastStatement.err
             ELSE \/ LastStatement.ok /\ session # NoneRef
                  \/ session = NoneRef /\ ret.rows = <<>>

C11_Witness ==
    /\ ret.op = "run_sql" /\ ret.kind = "raise"
    /\ ret.q.tbl = "nope" /\ Statement(ret.q.text) = "select"
    /\ ret.err = "UndefinedTable"

ReadOps ==
    {"get_all_transactions", "get_transaction_by_id", "get_transactions_by_date_range",
     "get_transactions_by_customer", "get_transaction_count", "get_total_sales",
     "get_sales_by_date_range", "get_top_customers"}

\* what a read gives on a table with no rows: [] / None / 0 / Decimal('0')
IsNoData ==
    pg_ret.row = NoTx /\ pg_ret.ids = {} /\ pg_ret.num = 0 /\ pg_ret.groups = <<>>

\* C12: no read or analytics method of the pgsql SalesDAO raises; without a
\* session, or when its query raises, it returns what it returns for no data,
\* and otherwise what the table holds.
C12_ReadsNeverRaise ==
    pg_ret.op \in ReadOps =>
        /\ pg_ret.kind = "return"
        /\ (~pg_session \/ pg_tx = "failed") => IsNoData
        /\ (pg_session /\ pg_tx = "ok") =>
              CASE pg_ret.op = "get_all_transactions" -> pg_ret.ids = Live
                [] pg_ret.op = "get_transaction_by_id" -> pg_ret.row = store[pg_ret.id]
                [] pg_ret.op = "get_transaction_count" -> pg_ret.num = Cardinality(Live)
                [] pg_ret.op = "get_transactions_by_customer" ->
                      pg_ret.ids = {i \in Live : store[i].customer_id = pg_ret.arg}
                [] pg_ret.op = "get_top_customers" ->
                      /\ Len(pg_ret.groups) <= pg_ret.arg
                      /\ \A k \in DOMAIN pg_ret.groups :
                            \E i \in Live :
                               store[i].customer_id = pg_ret.groups[k].customer_id
                [] OTHER -> pg_ret.ids \subseteq Live /\ pg_ret.num >= 0

C12_Witness ==
    /\ pg_ret.op = "get_total_sales" /\ pg_ret.kind = "return"
    /\ pg_session /\ pg_tx = "failed"
    /\ Live # {} /\ pg_ret.num = 0

\* C13: the report the final_report tool returns carries the summary it was
\* given, the recommendations when they were supplied, and task_completed =
\* true.
C13_ReportCarriesAllThree ==
    tool_ret.tool = "final_report" =>
        /\ "summary" \in DOMAIN tool_ret.report
        /\ tool_ret.report["summary"] = tool_ret.summary
        /\ tool_ret.recommendations # "" =>
              /\ "recommendations" \in DOMAIN tool_ret.report
              /\ tool_ret.report["recommendations"] = tool_ret.recommendations
        /\ "task_completed" \in DOMAIN tool_ret.report
        /\ tool_ret.report["task_completed"] = TRUE

DaoTools == {"get_all_tables", "get_schema_for_table", "run_sql"}

\* C15: a DAO tool calls the DAO method of its name with the arguments it was
\* given, and returns (or raises) exactly what that call returned (or raised).
C15_ToolsAddNoLogic ==
    tool_ret.tool \in DaoTools =>
        /\ ret.op = tool_ret.tool
        /\ tool_ret.tool = "get_schema_for_table" => ret.name = tool_ret.name
        /\ tool_ret.tool = "run_sql" => ret.q = tool_ret.q
        /\ tool_ret.out = ret

C15_Witness ==
    /\ tool_ret.tool = "run_sql" /\ tool_ret.q.params
    /\ Statement(tool_ret.q.text) = "insert"
    /\ tool_ret.out.kind = "return"
    /\ tool_ret.out.rows = <<[rows_affected |-> 1]>>

\* the text t is four digits, '-', two digits, '-', two digits
IsYYYY_MM_DD(t) ==
    /\ Len(t) = 10
    /\ t[5] = "-" /\ t[8] = "-"
    /\ \A i \in {1, 2, 3, 4, 6, 7, 9, 10} : CharDigit(t[i]) >= 0

IsCalendarDate(d) ==
    /\ d.y >= 1 /\ d.m \in 1..12
    /\ d.d >= 1
    /\ d.d <= (IF d.m = 2 THEN (IF d.y % 4 = 0 /\ (d.y % 100 # 0 \/ d.y % 400 = 0)
                                THEN 29 ELSE 28)
               ELSE IF d.m \in {4, 6, 9, 11} THEN 30 ELSE 31)

\* the text t is four digits, '-', one or two digits, '-' at position b, one
\* or two digits
IsYearMonthDay(t, b) ==
    /\ Len(t) >= 5 /\ t[5] = "-" /\ t[b] = "-"
    /\ b \in {7, 8} /\ Len(t) \in {b + 1, b + 2}
    /\ \A i \in DOMAIN t \ {5, b} : CharDigit(t[i]) >= 0

Digits2(t, from, to) ==
    IF to = from THEN CharDigit(t[from])
    ELSE 10 * CharDigit(t[from]) + CharDigit(t[to])

\* the text t is year-month-day of the date d
ReadsAs(t, d) ==
    \E b \in DOMAIN t :
        /\ IsYearMonthDay(t, b)
        /\ d.y = 100 * Digits2(t, 1, 2) + Digits2(t, 3, 4)
        /\ d.m = Digits2(t, 6, b - 1)
        /\ d.d = Digits2(t, b + 1, Len(t))

\* the text t is year-month-day of some calendar date
NamesADate(t) ==
    \E b \in DOMAIN t :
        /\ IsYearMonthDay(t, b)
        /\ IsCalendarDate([y |-> 100 * Digits2(t, 1, 2) + Digits2(t, 3, 4),
                           m |-> Digits2(t, 6, b - 1),
                           d |-> Digits2(t, b + 1, Len(t))])

InsertWithDateString ==
    pg_ret.op = "insert" /\ pg_ret.data.transaction_date.type = "str"

\* C14 (as stated): a 'YYYY-MM-DD' string is stored as the date it names, a
\* date object unchanged, and a string in any other format is not inserted.
C14_OnlyYYYY_MM_DD ==
    /\ (InsertWithDateString /\ pg_ret.ok) =>
          /\ IsYYYY_MM_DD(pg_ret.data.transaction_date.str)
          /\ ReadsAs(pg_ret.data.transaction_date.str, pg_ret.row.transaction_date)
    /\ (pg_ret.op = "insert" /\ pg_ret.data.transaction_date.type = "date"
          /\ pg_ret.ok) =>
          pg_ret.row.transaction_date = pg_ret.data.transaction_date.date

\* C14 (amended): a string that reads year-month-day, the month and the day
\* with one or two digits, and names a calendar date is stored as that date
\* ("2024-01-15" as January 15, 2024), a date object unchanged; a string that
\* does not, is not inserted: the call returns None and the rows stay.
C14_StringsStrptimeAccepts ==
    [][pg_ret'.op = "insert" =>
         LET given == pg_ret'.data.transaction_date
             kept == pg_ret'.row.transaction_date
         IN /\ (given.type = "str" /\ pg_ret'.ok) =>
                  /\ ReadsAs(given.str, kept) /\ IsCalendarDate(kept)
                  /\ store'[pg_ret'.id].transaction_date = kept
            /\ (given.str = Str_2024_01_15 /\ pg_ret'.ok) =>
                  kept = [y |-> 2024, m |-> 1, d |-> 15]
            /\ (given.type = "str" /\ ~NamesADate(given.str)) =>
                  ~pg_ret'.ok /\ store' = store
            /\ (given.type = "date" /\ pg_ret'.ok) => kept = given.date]_vars

C14_Witness ==
    /\ InsertWithDateString /\ pg_ret.ok
    /\ pg_ret.data.transaction_date.str = Str_2024_1_15
    /\ store[pg_ret.id].transaction_date = [y |-> 2024, m |-> 1, d |-> 15]

\* C16: a SalesDAO never has a session or engine open other than the one it
\* holds, and once the with-block is left or disconnect() has run, none it
\* created is open.
C16_NothingLeftOpen ==
    /\ \A i \in ConnIds :
          /\ sessions[i] = "open" => i = session
          /\ engines[i] = "live" => i = engine
    /\ ret.op \in {"__exit__", "disconnect"} =>
          \A i \in ConnIds : sessions[i] # "open" /\ engines[i] # "live"

\* C17: an insert, update or delete that fails on a connected DAO returns
\* None / False without raising, leaves the stored rows as they were, and
\* leaves the session rolled back.
C17_FailedWriteRolledBack ==
    [][(pg_ret'.op \in {"insert", "update", "delete"} /\ pg_session /\ ~pg_ret'.ok) =>
         /\ pg_ret'.kind = "return"
         /\ store' = store
         /\ pg_tx' = "ok"]_vars

\* C18: when a run_sql call has raised, the next run_sql call with a statement
\* the database accepts returns that statement's result, and commits nothing
\* but that statement's own change.
C18_RaiseDoesNotPoison ==
    [][(/\ ret.op = "run_sql" /\ ret.kind = "raise"
        /\ ret'.op = "run_sql" /\ session # NoneRef
        /\ Execute("idle", work, ret'.q).ok) =>
         /\ ret'.kind = "return"
         /\ committed' \in {committed, Execute("idle", work, ret'.q).work}]_vars

\* the DAO has been disconnected and not connected again: the session and the
\* engine it holds are the closed and disposed ones
Disconnected ==
    /\ session # NoneRef /\ sessions[session] = "closed"
    /\ engine # NoneRef /\ engines[engine] = "disposed"

\* C19: on a disconnected DAO, get_all_tables, get_schema_for_table and
\* run_sql return their empty default and touch neither the database, the
\* session nor the engine.
C19_DisconnectedCallsReturnEmpty ==
    [][(Disconnected /\ ret'.op \in {"run_sql", "get_all_tables", "get_schema_for_table"}) =>
         /\ ret' = [Call(ret'.op) EXCEPT !.q = ret'.q, !.name = ret'.name]
         /\ UNCHANGED <<sessions, engines, tx, committed, work>>]_vars

====
